---- MODULE Spec2Model ----
(***************************************************************************)
(* The generation job pipeline of the accreditation backend:               *)
(*   backend/app/services/job_service.py   the in-memory job store         *)
(*   backend/app/routers/generate.py       start_generation and the        *)
(*                                         background run _run_generation  *)
(*   backend/app/services/pdf_service.py   generate_accreditation, run in  *)
(*                                         a worker thread per record      *)
(* The event loop runs one coroutine at a time, so everything between two  *)
(* awaits of generate.py is one step.  The worker threads started by       *)
(* asyncio.to_thread run concurrently with the loop and with each other;   *)
(* their writes to the working directory are steps of their own.           *)
(***************************************************************************)
EXTENDS Integers, Sequences, FiniteSets, TLC

\* ---------------------------------------------------------------- bounds
MaxRecords == 3            \* longest attendee list
MaxRerunRecords == 2       \* longest attendee list of a request that is issued again
MaxRuns == 2               \* times the same generation request is issued
MaxTextEms == 12           \* widest text, in ems of advance (its width at 1pt)
MaxWidthSteps == 10        \* widest bounding width, in steps of WidthStep points
MaxVersion == 2            \* largest QR version: matrices of 21 and 25 cells
MaxConcurrentPdfJobs == 2  \* the configured cap Settings.max_concurrent_pdf_jobs

\* ------------------------------------------------------------- vocabulary
Roles == {"attendee", "speaker", "staff"}
TicketTypes == {"Helpers", "Speakers", "General"}
types_staff == {"Helpers"}
types_speaker == {"Speakers"}

\* the spreadsheet rows the attendee lists are made of: two rows share an id,
\* and a list may hold the same row twice
AttendeeRows ==
    {[id |-> "A1", ticket_type |-> "Helpers"],
     [id |-> "A2", ticket_type |-> "Speakers"],
     [id |-> "A2", ticket_type |-> "General"]}
Ids == {a.id : a \in AttendeeRows}

\* the template blobs a session may hold
TemplateBlobSets == {{}, {"attendee"}, {"speaker", "staff"}}

NoPlacement == "none"
NoUrl == "none"
NoError == "none"
SasUrl == "sas_url"
EmptyStats == <<>>
ZeroStats == [r \in Roles |-> 0]

\* content of a file attendee-<id>.pdf of the working directory
Absent == <<"absent">>
TemplateCopy == <<"template">>
Badge(i) == <<"badge", i>>

\* exceptions raised inside the try block of _run_generation, by their message
NoTemplatesMsg == "No se encontraron plantillas"
SetupErrors == {"template download failed"}
ArchiveErrors == {"zip failed", "upload failed"}

VARIABLES
    jobs,        \* _jobs: sequence of job records, job id = index
    job_id,      \* id of the job of the request being served (0: none yet)
    pc,          \* the background run: idle, scheduled, gather, done, escaped
    req,         \* the GenerationRequest: incremental, positions
    blobs,       \* roles whose template blob exists for the session
    attendees,   \* the records read from the spreadsheet
    work_dir,    \* files attendee-<id>.pdf of the working directory
    templates,   \* local templates: role -> role whose template file it uses
    sem,         \* value of the semaphore
    task,        \* position of each record's _process_one
    passed,      \* placement each record's task handed to the compositor
    outcome,     \* how each record's task ended: none, generated, skipped,
                 \*   no_position, raised
    generated,   \* nonlocal counters of _run_generation
    skipped,
    failed,
    stats,
    archive,     \* <<>> or <<files of the uploaded ZIP>>
    exc,         \* message of the exception the except clause caught, if any
    cancelled,   \* an external caller has marked the job failed
    call         \* a direct call of a service function: arguments and result

\* no service function is being called directly
NoCall == [fn |-> "none"]

vars == <<jobs, job_id, pc, req, blobs, attendees, work_dir, templates, sem,
          task, passed, outcome, generated, skipped, failed, stats, archive, exc,
          cancelled, call>>

\* ---------------------------------------------------------- job_service.py
NewJob(total) ==
    [status |-> "pending", total_attendees |-> total, generated |-> 0,
     skipped |-> 0, failed |-> 0, download_url |-> NoUrl, error |-> NoError,
     stats |-> EmptyStats]

create_job(js, total) == Append(js, NewJob(total))

get_job(js, jid) == IF jid \in DOMAIN js THEN <<js[jid]>> ELSE <<>>

update_job(js, jid, kwargs) ==
    IF jid \notin DOMAIN js THEN js
    ELSE [js EXCEPT ![jid] =
            [f \in DOMAIN js[jid] |->
                IF f \in DOMAIN kwargs THEN kwargs[f] ELSE js[jid][f]]]

mark_running(js, jid) == update_job(js, jid, [status |-> "running"])

mark_completed(js, jid, g, s, f, url, st) ==
    update_job(js, jid, [status |-> "completed", generated |-> g, skipped |-> s,
                         failed |-> f, download_url |-> url, stats |-> st])

\* mutant: the error message is not stored
mark_failed_drops_error(js, jid, err) == update_job(js, jid, [status |-> "failed"])

mark_failed(js, jid, err) ==
    update_job(js, jid, [status |-> "failed", error |-> err])

\* mutant: the counters are overwritten with the increments instead of added to
increment_progress_overwrites(js, jid, g, s, f) ==
    update_job(js, jid, [generated |-> g, skipped |-> s, failed |-> f])

increment_progress(js, jid, g, s, f) ==
    IF jid \notin DOMAIN js THEN js
    ELSE [js EXCEPT ![jid] =
            [f2 \in DOMAIN js[jid] |->
                CASE f2 = "generated" -> js[jid].generated + g
                  [] f2 = "skipped" -> js[jid].skipped + s
                  [] f2 = "failed" -> js[jid].failed + f
                  [] OTHER -> js[jid][f2]]]

\* -------------------------------------------------------- excel_service.py
\* mutant: the speaker labels are tested before the staff labels
resolve_template_role_speaker_first(ticket_type, staff, speaker) ==
    IF ticket_type \in speaker THEN "speaker"
    ELSE IF ticket_type \in staff THEN "staff"
    ELSE "attendee"

resolve_template_role(ticket_type, staff, speaker) ==
    IF ticket_type \in staff THEN "staff"
    ELSE IF ticket_type \in speaker THEN "speaker"
    ELSE "attendee"

\* ------------------------------------------------------------- generate.py
Records == 1..Len(attendees)
EmptyDir == [d \in Ids |-> Absent]
ThreadStates == {"thread_start", "thread_copied", "thread_ok", "thread_err"}
Tasks == DOMAIN task     \* the tasks asyncio.gather was given, one per record
InFlight == {i \in Tasks : task[i] \in ThreadStates}

role_of(a) == resolve_template_role(a.ticket_type, types_staff, types_speaker)

\* os.path.exists(output_pdf)
path_exists(dir, id) == dir[id] # Absent

\* req.positions.get(role) or req.positions.get(attendee)
positions_get(positions, role) ==
    IF role \in positions THEN role ELSE NoPlacement

\* mutant: the general-attendee placement is tried first
pos_lookup_attendee_first(positions, role) ==
    IF positions_get(positions, "attendee") # NoPlacement
    THEN positions_get(positions, "attendee")
    ELSE positions_get(positions, role)

\* mutant: any placement of the request stands in for a missing one
pos_lookup_any_placement(positions, role) ==
    IF positions_get(positions, role) # NoPlacement
    THEN positions_get(positions, role)
    ELSE IF positions = {} THEN NoPlacement
    ELSE CHOOSE r \in positions : TRUE

pos_lookup(positions, role) ==
    IF positions_get(positions, role) # NoPlacement
    THEN positions_get(positions, role)
    ELSE positions_get(positions, "attendee")

\* templates.get("attendee") or next(iter(templates.values())): the download
\* loop inserts in the order of TemplateRole (attendee, speaker, staff)
fallback_template(avail) ==
    IF "attendee" \in avail THEN "attendee"
    ELSE IF "speaker" \in avail THEN "speaker"
    ELSE "staff"

with_fallback(avail) ==
    [r \in Roles |-> IF r \in avail THEN r ELSE fallback_template(avail)]

AttendeeLists(n) == UNION {[1..k -> AttendeeRows] : k \in 0..n}

InitWith(lists) ==
    /\ jobs = <<>>
    /\ job_id = 0
    /\ pc = "idle"
    /\ req \in [incremental : BOOLEAN, positions : SUBSET Roles]
    /\ blobs \in TemplateBlobSets
    /\ attendees \in lists
    /\ work_dir = EmptyDir
    /\ templates = <<>>
    /\ sem = 0
    /\ task = <<>>
    /\ passed = <<>>
    /\ outcome = <<>>
    /\ generated = 0
    /\ skipped = 0
    /\ failed = 0
    /\ stats = ZeroStats
    /\ archive = <<>>
    /\ exc = NoError
    /\ cancelled = FALSE
    /\ call = NoCall

Init == InitWith(AttendeeLists(MaxRecords))

\* POST /api/generate: create the job, schedule the background run
start_generation ==
    /\ pc = "idle" \/ (pc \in {"done", "escaped"} /\ Len(jobs) < MaxRuns)
    /\ jobs' = create_job(jobs, Len(attendees))
    /\ job_id' = Len(jobs) + 1
    /\ pc' = "scheduled"
    /\ cancelled' = FALSE
    /\ exc' = NoError
    /\ UNCHANGED <<req, blobs, attendees, work_dir, templates, sem, task,
                   passed, outcome, generated, skipped, failed, stats,
                   archive, call>>

\* _run_generation up to tempfile.mkdtemp raising: nothing catches it
run_generation_mkdtemp_raises ==
    /\ pc = "scheduled"
    /\ jobs' = mark_running(jobs, job_id)
    /\ pc' = "escaped"
    /\ UNCHANGED <<job_id, req, blobs, attendees, work_dir, templates, sem,
                   task, passed, outcome, generated, skipped, failed, stats,
                   archive, exc, cancelled, call>>

\* _run_generation up to an exception of the template stage: except, finally
run_generation_setup_raises ==
    /\ pc = "scheduled"
    /\ \E err \in (IF blobs = {} THEN {NoTemplatesMsg} ELSE SetupErrors) :
          /\ exc' = err
          /\ jobs' = mark_failed(mark_running(jobs, job_id), job_id, err)
    /\ work_dir' = EmptyDir
    /\ pc' = "done"
    /\ UNCHANGED <<job_id, req, blobs, attendees, templates, sem, task,
                   passed, outcome, generated, skipped, failed, stats,
                   archive, cancelled, call>>

\* _run_generation up to `await asyncio.gather(...)`
run_generation_begin ==
    /\ pc = "scheduled"
    /\ blobs # {}
    /\ jobs' = mark_running(jobs, job_id)
    /\ work_dir' = EmptyDir
    /\ templates' = with_fallback(blobs)
    /\ generated' = 0
    /\ skipped' = 0
    /\ failed' = 0
    /\ stats' = ZeroStats
    /\ sem' = MaxConcurrentPdfJobs
    /\ task' = [i \in Records |-> "waiting"]
    /\ passed' = [i \in Records |-> NoPlacement]
    /\ pc' = "gather"
    /\ outcome' = [i \in Records |-> "none"]
    /\ exc' = NoError
    /\ UNCHANGED <<job_id, req, blobs, attendees, archive, cancelled, call>>

\* the semaphore: acquire needs a free slot, and waiters are woken in list order
\* mutant: the semaphore never blocks
sem_never_locked(v) == FALSE

sem_locked(v) == v <= 0

can_acquire(i) ==
    /\ task[i] = "waiting"
    /\ \A j \in Tasks : j < i => task[j] # "waiting"
    /\ ~sem_locked(sem)

\* mutant: an existing output is skipped whatever the mode
process_one_skip_any_mode(i) ==
    /\ pc = "gather"
    /\ can_acquire(i)
    /\ path_exists(work_dir, attendees[i].id)
    /\ skipped' = skipped + 1
    /\ jobs' = increment_progress(jobs, job_id, 0, 1, 0)
    /\ task' = [task EXCEPT ![i] = "done"]
    /\ outcome' = [outcome EXCEPT ![i] = "skipped"]
    /\ UNCHANGED <<job_id, pc, req, blobs, attendees, work_dir, templates,
                   sem, passed, generated, failed, stats, archive, exc,
                   cancelled, call>>

\* _process_one from `async with sem` to its first await or return
process_one_skip(i) ==
    /\ pc = "gather"
    /\ can_acquire(i)
    /\ req.incremental /\ path_exists(work_dir, attendees[i].id)
    /\ skipped' = skipped + 1
    /\ jobs' = increment_progress(jobs, job_id, 0, 1, 0)
    /\ task' = [task EXCEPT ![i] = "done"]
    /\ outcome' = [outcome EXCEPT ![i] = "skipped"]
    /\ UNCHANGED <<job_id, pc, req, blobs, attendees, work_dir, templates,
                   sem, passed, generated, failed, stats, archive, exc,
                   cancelled, call>>

process_one_no_position(i) ==
    /\ pc = "gather"
    /\ can_acquire(i)
    /\ ~(req.incremental /\ path_exists(work_dir, attendees[i].id))
    /\ pos_lookup(req.positions, role_of(attendees[i])) = NoPlacement
    /\ failed' = failed + 1
    /\ jobs' = increment_progress(jobs, job_id, 0, 0, 1)
    /\ task' = [task EXCEPT ![i] = "done"]
    /\ outcome' = [outcome EXCEPT ![i] = "no_position"]
    /\ UNCHANGED <<job_id, pc, req, blobs, attendees, work_dir, templates,
                   sem, passed, generated, skipped, stats, archive, exc,
                   cancelled, call>>

process_one_compose(i) ==
    /\ pc = "gather"
    /\ can_acquire(i)
    /\ ~(req.incremental /\ path_exists(work_dir, attendees[i].id))
    /\ pos_lookup(req.positions, role_of(attendees[i])) # NoPlacement
    /\ passed' = [passed EXCEPT ![i] = pos_lookup(req.positions, role_of(attendees[i]))]
    /\ sem' = sem - 1
    /\ task' = [task EXCEPT ![i] = "thread_start"]
    /\ UNCHANGED <<jobs, job_id, pc, req, blobs, attendees, work_dir,
                   templates, outcome, generated, skipped, failed, stats,
                   archive, exc, cancelled, call>>

\* generate_accreditation in the worker thread: shutil.copyfile(template, output)
compose_copy(i) ==
    /\ task[i] = "thread_start"
    /\ work_dir' = [work_dir EXCEPT ![attendees[i].id] = TemplateCopy]
    /\ task' = [task EXCEPT ![i] = "thread_copied"]
    /\ UNCHANGED <<jobs, job_id, pc, req, blobs, attendees, templates, sem,
                   passed, outcome, generated, skipped, failed, stats,
                   archive, exc, cancelled, call>>

\* ... shutil.move(tmp_final, output) and return
compose_finish(i) ==
    /\ task[i] = "thread_copied"
    /\ work_dir' = [work_dir EXCEPT ![attendees[i].id] = Badge(i)]
    /\ task' = [task EXCEPT ![i] = "thread_ok"]
    /\ UNCHANGED <<jobs, job_id, pc, req, blobs, attendees, templates, sem,
                   passed, outcome, generated, skipped, failed, stats,
                   archive, exc, cancelled, call>>

\* ... any statement of generate_accreditation raising, before or after the copy
compose_raises(i) ==
    /\ task[i] \in {"thread_start", "thread_copied"}
    /\ task' = [task EXCEPT ![i] = "thread_err"]
    /\ UNCHANGED <<jobs, job_id, pc, req, blobs, attendees, work_dir,
                   templates, sem, passed, outcome, generated, skipped,
                   failed, stats, archive, exc, cancelled, call>>

\* mutant: every composed badge is counted under the general-attendee role
process_one_generated_as_attendee(i) ==
    /\ task[i] = "thread_ok"
    /\ generated' = generated + 1
    /\ stats' = [stats EXCEPT !["attendee"] = @ + 1]
    /\ jobs' = increment_progress(jobs, job_id, 1, 0, 0)
    /\ sem' = sem + 1
    /\ task' = [task EXCEPT ![i] = "done"]
    /\ outcome' = [outcome EXCEPT ![i] = "generated"]
    /\ UNCHANGED <<job_id, pc, req, blobs, attendees, work_dir, templates,
                   passed, skipped, failed, archive, exc, cancelled, call>>

\* _process_one resumed after `await asyncio.to_thread(...)` returned
process_one_generated(i) ==
    /\ task[i] = "thread_ok"
    /\ generated' = generated + 1
    /\ stats' = [stats EXCEPT ![role_of(attendees[i])] = @ + 1]
    /\ jobs' = increment_progress(jobs, job_id, 1, 0, 0)
    /\ sem' = sem + 1
    /\ task' = [task EXCEPT ![i] = "done"]
    /\ outcome' = [outcome EXCEPT ![i] = "generated"]
    /\ UNCHANGED <<job_id, pc, req, blobs, attendees, work_dir, templates,
                   passed, skipped, failed, archive, exc, cancelled, call>>

\* mutant: the exception is swallowed without being counted
process_one_failed_uncounted(i) ==
    /\ task[i] = "thread_err"
    /\ sem' = sem + 1
    /\ task' = [task EXCEPT ![i] = "done"]
    /\ outcome' = [outcome EXCEPT ![i] = "raised"]
    /\ UNCHANGED <<jobs, job_id, pc, req, blobs, attendees, work_dir,
                   templates, passed, generated, skipped, failed, stats,
                   archive, exc, cancelled, call>>

\* _process_one resumed after `await asyncio.to_thread(...)` raised
process_one_failed(i) ==
    /\ task[i] = "thread_err"
    /\ failed' = failed + 1
    /\ jobs' = increment_progress(jobs, job_id, 0, 0, 1)
    /\ sem' = sem + 1
    /\ task' = [task EXCEPT ![i] = "done"]
    /\ outcome' = [outcome EXCEPT ![i] = "raised"]
    /\ UNCHANGED <<job_id, pc, req, blobs, attendees, work_dir, templates,
                   passed, generated, skipped, stats, archive, exc, cancelled,
                   call>>

\* mutant: the join returns as soon as one task is done
gather_first_completed ==
    pc = "gather" /\ (Tasks = {} \/ \E i \in Tasks : task[i] = "done")

\* asyncio.gather returns once every task is done
gather_done == pc = "gather" /\ \A i \in Tasks : task[i] = "done"

\* Path(work_dir).glob("attendee-*.pdf")
pdf_files(dir) == {<<d, dir[d]>> : d \in {e \in Ids : dir[e] # Absent}}

\* _run_generation after gather: ZIP, upload, SAS url, mark_completed, finally
run_generation_archive ==
    /\ gather_done
    /\ archive' = <<pdf_files(work_dir)>>
    /\ jobs' = mark_completed(jobs, job_id, generated, skipped, failed, SasUrl, stats)
    /\ work_dir' = EmptyDir
    /\ pc' = "done"
    /\ UNCHANGED <<job_id, req, blobs, attendees, templates, sem, task,
                   passed, outcome, generated, skipped, failed, stats, exc,
                   cancelled, call>>

\* ... or the ZIP, the upload or the SAS url raises: except, finally
run_generation_archive_raises ==
    /\ gather_done
    /\ \E err \in ArchiveErrors :
          /\ exc' = err
          /\ jobs' = mark_failed(jobs, job_id, err)
    /\ work_dir' = EmptyDir
    /\ pc' = "done"
    /\ UNCHANGED <<job_id, req, blobs, attendees, templates, sem, task,
                   passed, outcome, generated, skipped, failed, stats,
                   archive, cancelled, call>>

\* an external caller cancels: job_service.mark_failed(job_id, ...)
CancelMsg == "cancelled"

external_mark_failed ==
    /\ job_id \in DOMAIN jobs
    /\ ~cancelled
    /\ jobs' = mark_failed(jobs, job_id, CancelMsg)
    /\ cancelled' = TRUE
    /\ UNCHANGED <<job_id, pc, req, blobs, attendees, work_dir, templates,
                   sem, task, passed, outcome, generated, skipped, failed,
                   stats, archive, exc, call>>

Next ==
    \/ (pc = "idle" /\ start_generation)
    \/ run_generation_mkdtemp_raises
    \/ run_generation_setup_raises
    \/ run_generation_begin
    \/ \E i \in Tasks : process_one_skip(i)
    \/ \E i \in Tasks : process_one_no_position(i)
    \/ \E i \in Tasks : process_one_compose(i)
    \/ \E i \in Tasks : compose_copy(i)
    \/ \E i \in Tasks : compose_finish(i)
    \/ \E i \in Tasks : compose_raises(i)
    \/ \E i \in Tasks : process_one_generated(i)
    \/ \E i \in Tasks : process_one_failed(i)
    \/ run_generation_archive
    \/ run_generation_archive_raises

Spec == Init /\ [][Next]_vars

NextCancel == Next \/ external_mark_failed

SpecCancel == Init /\ [][NextCancel]_vars

\* the same request issued again once the run of the previous one has ended
InitRerun == InitWith(AttendeeLists(MaxRerunRecords))

NextRerun == Next \/ (pc # "idle" /\ start_generation)

SpecRerun == InitRerun /\ [][NextRerun]_vars

\* ------------------------------------------------ direct calls of services
pipeline_vars == <<jobs, job_id, pc, req, blobs, attendees, work_dir,
                   templates, sem, task, passed, outcome, generated, skipped,
                   failed, stats, archive, exc, cancelled>>

\* no request has been made: the job store is empty, no run was scheduled
NoPipeline ==
    /\ jobs = <<>>
    /\ job_id = 0
    /\ pc = "idle"
    /\ req = [incremental |-> TRUE, positions |-> {}]
    /\ blobs = {}
    /\ attendees = <<>>
    /\ work_dir = EmptyDir
    /\ templates = <<>>
    /\ sem = 0
    /\ task = <<>>
    /\ passed = <<>>
    /\ outcome = <<>>
    /\ generated = 0
    /\ skipped = 0
    /\ failed = 0
    /\ stats = ZeroStats
    /\ archive = <<>>
    /\ exc = NoError
    /\ cancelled = FALSE

\* the call has not returned yet
Pending == "pending"

\* resolve_template_role(ticket_type, types_staff, types_speaker): the labels
\* are whatever the column map of the request carries, the ticket type is the
\* stripped cell of the row, "" when the sheet has no such column
TicketLabels == {"Helpers", "Speakers", "Crew"}
TicketCells == TicketLabels \cup {"General", ""}

InitRole ==
    /\ NoPipeline
    /\ call \in [fn : {"resolve_template_role"}, ticket_type : TicketCells,
                  types_staff : SUBSET TicketLabels,
                  types_speaker : SUBSET TicketLabels, result : {Pending}]

resolve_template_role_call ==
    /\ call.fn = "resolve_template_role"
    /\ call.result = Pending
    /\ call' = [call EXCEPT !.result =
                   resolve_template_role(call.ticket_type, call.types_staff,
                                         call.types_speaker)]
    /\ UNCHANGED pipeline_vars

NextRole == resolve_template_role_call

SpecRole == InitRole /\ [][NextRole]_vars

\* ---------------------------------------------------------- pdf_service.py
DefaultMinimum == 8        \* _adjust_font_size(..., minimum=8)
DefaultInitial == 30       \* _adjust_font_size(..., initial=30)
NameInitial == 22          \* last name and first name start at 22pt
CompanyInitial == 18       \* the company starts at 18pt
WidthStep == 25

\* canvas.stringWidth(text, font, size): the advance of the text times the
\* size; a text is modelled by its advance in ems
stringWidth(ems, size) == ems * size

TextEms == 0..MaxTextEms
\* bounding widths in points: tmpl_w - 2 * qr_x - 4 is negative when the QR
\* sits right of the page centre
MaxWidths == {-4} \cup {WidthStep * k : k \in 0..MaxWidthSteps}
InitialSizes == {DefaultMinimum - 1, CompanyInitial, NameInitial, DefaultInitial}

RECURSIVE adjust_font_size_no_floor(_, _, _, _)
\* mutant: the search goes on below the floor
adjust_font_size_no_floor(ems, max_width, size, minimum) ==
    IF size >= 1
    THEN IF stringWidth(ems, size) <= max_width THEN size
         ELSE adjust_font_size_no_floor(ems, max_width, size - 1, minimum)
    ELSE minimum

RECURSIVE adjust_font_size(_, _, _, _)
\* _adjust_font_size: size counts down from initial while size >= minimum
adjust_font_size(ems, max_width, size, minimum) ==
    IF size >= minimum
    THEN IF stringWidth(ems, size) <= max_width THEN size
         ELSE adjust_font_size(ems, max_width, size - 1, minimum)
    ELSE minimum

InitFont ==
    /\ NoPipeline
    /\ call \in [fn : {"_adjust_font_size"}, text : TextEms,
                  max_width : MaxWidths, initial : InitialSizes,
                  minimum : {DefaultMinimum}, returned : {FALSE},
                  result : {0}]

adjust_font_size_call ==
    /\ call.fn = "_adjust_font_size"
    /\ ~call.returned
    /\ call' = [call EXCEPT !.returned = TRUE, !.result =
                   adjust_font_size(call.text, call.max_width, call.initial,
                                    call.minimum)]
    /\ UNCHANGED pipeline_vars

NextFont == adjust_font_size_call

SpecFont == InitFont /\ [][NextFont]_vars

\* the TextZone of generate_accreditation: last name, first name and company
\* stacked above the QR, each fitted to max_text_w
LastNameGap == 10          \* y_last = qr_top + 10
FirstNameGap == 6          \* y_first = y_last + font_last + 6
CompanyGap == 4            \* y_company = y_first + font_first + 4
Ink == "black"
CompanyInk == "#005BAB"

\* company cells: the text, its lower() and the advance of its upper()
Companies ==
    {[text |-> "", lower |-> "", ems |-> 0],
     [text |-> " ", lower |-> " ", ems |-> 1],
     [text |-> "NaN", lower |-> "nan", ems |-> 2],
     [text |-> "none", lower |-> "none", ems |-> 3],
     [text |-> "Acme", lower |-> "acme", ems |-> 3],
     [text |-> "Acme International Holdings", lower |-> "acme international holdings",
      ems |-> MaxTextEms]}
\* advances of upper() of the names: empty, short, longer, widest
NameEms == {0, 2, 5, 8, MaxTextEms}
TemplateWidths == {200, 300}
QrXs == {0, 73, 148, 160}
QrY == 40
QrSize == 60

\* mutant: the text is set at the initial size whatever its width
fitted_size_unfitted(ems, max_width, initial) == initial

\* _adjust_font_size(c, text, max_text_w, initial=...) with the default floor
fitted_size(ems, max_width, initial) ==
    adjust_font_size(ems, max_width, initial, DefaultMinimum)

\* mutant: the placeholders are compared case-sensitively
company_is_drawn_case_sensitive(company) ==
    company.text # "" /\ company.text \notin {"nan", "none", ""}

\* attendee_company and attendee_company.lower() not in ("nan", "none", "")
company_is_drawn(company) ==
    company.text # "" /\ company.lower \notin {"nan", "none", ""}

\* font metrics of DejaVuSans-Bold in thousandths of the size: a line set at
\* baseline y reaches from y - descent to y + ascent
Ascent1000 == 928
Descent1000 == 236

\* mutant: the next baseline is raised by the gap alone
stack_above_gap_only(y, font, gap) == y + gap

\* the baseline of the next line: y + the font size of the line below + gap
stack_above(y, font, gap) == y + font + gap

\* the drawCentredString operations of the TextZone, in drawing order, and
\* the fill colour the canvas is left with
text_zone(tmpl_w, qr_x, qr_y, qr_size, last_ems, first_ems, company) ==
    LET max_text_w == tmpl_w - (qr_x * 2) - 4
        qr_top == qr_y + qr_size
        font_last == fitted_size(last_ems, max_text_w, NameInitial)
        y_last == qr_top + LastNameGap
        font_first == fitted_size(first_ems, max_text_w, NameInitial)
        y_first == stack_above(y_last, font_last, FirstNameGap)
        font_company == fitted_size(company.ems, max_text_w, CompanyInitial)
        y_company == stack_above(y_first, font_first, CompanyGap)
        names == <<[line |-> "last", ems |-> last_ems, size |-> font_last,
                    y |-> y_last, fill |-> Ink],
                   [line |-> "first", ems |-> first_ems, size |-> font_first,
                    y |-> y_first, fill |-> Ink]>>
    IN  [max_text_w |-> max_text_w,
         ops |-> IF company_is_drawn(company)
                 THEN Append(names, [line |-> "company", ems |-> company.ems,
                                     size |-> font_company, y |-> y_company,
                                     fill |-> CompanyInk])
                 ELSE names,
         fill |-> Ink]

NoText == [max_text_w |-> 0, ops |-> <<>>, fill |-> Ink]

InitText ==
    /\ NoPipeline
    /\ call \in [fn : {"generate_accreditation.text"},
                  tmpl_w : TemplateWidths, qr_x : QrXs, qr_y : {QrY},
                  qr_size : {QrSize}, last : NameEms, first : NameEms,
                  company : Companies, returned : {FALSE}, result : {NoText}]

text_zone_call ==
    /\ call.fn = "generate_accreditation.text"
    /\ ~call.returned
    /\ call' = [call EXCEPT !.returned = TRUE, !.result =
                   text_zone(call.tmpl_w, call.qr_x, call.qr_y, call.qr_size,
                             call.last, call.first, call.company)]
    /\ UNCHANGED pipeline_vars

NextText == text_zone_call

SpecText == InitText /\ [][NextText]_vars

\* ----------------------------------------------------------- qr_service.py
\* lengths of the raster are pixels; lengths of the vector document are
\* thousandths of a user unit, the three decimals _svg_rounded_rect prints;
\* roundness and logo scale are hundredths
CELL_PX == 40
BORDER_CELLS == 4
GapRatio100 == 12          \* _GAP_RATIO = 0.12
CellSvg == 10000           \* cell_svg = 10.0
LogoCap100 == 28           \* int(img_size * 0.28)
LogoPad100 == 30           \* pad = int(cell_px * 0.3)
FinderSide == 7

Min(a, b) == IF a <= b THEN a ELSE b
Max(a, b) == IF a >= b THEN a ELSE b
Grid(n) == (0..(n - 1)) \X (0..(n - 1))

\* corners = [(0, 0), (0, n - 7), (n - 7, 0)]
finder_origins(n) == {<<0, 0>>, <<0, n - FinderSide>>, <<n - FinderSide, 0>>}

\* the cells one corner adds: range(br - 1, br + 8) x range(bc - 1, bc + 8),
\* kept when 0 <= r < n and 0 <= c < n
finder_zone_of(n, b) ==
    {rc \in ((b[1] - 1)..(b[1] + FinderSide)) \X ((b[2] - 1)..(b[2] + FinderSide)) :
        /\ 0 <= rc[1] /\ rc[1] < n
        /\ 0 <= rc[2] /\ rc[2] < n}

\* mutant: the zones are the bare 7x7 blocks, without the separator
finder_zones_bare(n) ==
    UNION {(b[1]..(b[1] + FinderSide - 1)) \X (b[2]..(b[2] + FinderSide - 1)) :
             b \in finder_origins(n)}

finder_zones(n) == UNION {finder_zone_of(n, b) : b \in finder_origins(n)}

\* _get_qr_matrix(data): the side is 17 + 4 * version; the three finder
\* patterns (ring, gap, 3x3 dot) are dark in every matrix, their separators
\* are clear, and the other cells depend on the payload
in_corner(n, r, c) ==
    \/ r <= FinderSide /\ c <= FinderSide
    \/ r <= FinderSide /\ c >= n - FinderSide - 1
    \/ r >= n - FinderSide - 1 /\ c <= FinderSide

finder_dark(n) ==
    UNION {{<<b[1] + dr, b[2] + dc>> : <<dr, dc>> \in
              {d \in (0..6) \X (0..6) :
                 \/ d[1] \in {0, 6} \/ d[2] \in {0, 6}
                 \/ (d[1] \in 2..4 /\ d[2] \in 2..4)}} :
           b \in finder_origins(n)}

payload_dark(pattern, r, c) ==
    CASE pattern = "checker" -> (r + c) % 2 = 0
      [] pattern = "rows" -> r % 2 = 0
      [] OTHER -> (r * c) % 3 = 1

Payloads == [version : 1..MaxVersion, pattern : {"checker", "rows", "sparse"}]

get_qr_matrix(data) ==
    LET n == 17 + 4 * data.version
    IN  [n |-> n,
         dark |-> finder_dark(n) \cup
                  {rc \in Grid(n) : /\ ~in_corner(n, rc[1], rc[2])
                                    /\ payload_dark(data.pattern, rc[1], rc[2])}]

\* the logo argument: no path, a path with no file behind it, a file that
\* Image.open cannot read, or an image of lw x lh pixels
NoLogoPath == [path |-> FALSE, exists |-> FALSE, readable |-> FALSE,
               lw |-> 0, lh |-> 0]
Logos ==
    {NoLogoPath,
     [path |-> TRUE, exists |-> FALSE, readable |-> FALSE, lw |-> 0, lh |-> 0],
     [path |-> TRUE, exists |-> TRUE, readable |-> FALSE, lw |-> 0, lh |-> 0]}
    \cup [path : {TRUE}, exists : {TRUE}, readable : {TRUE},
          lw : {100, 1000}, lh : {1, 100}]

NoOverlay == [present |-> FALSE, w |-> 0, h |-> 0, x |-> 0, y |-> 0, pad |-> 0]

\* mutant: the logo is scaled to n * logo_scale cells without the 28% cap
logo_max_px_uncapped(n, logo_scale, cell_px, img_size) ==
    (n * logo_scale * cell_px) \div 100

\* max_logo_px = min(int(n * logo_scale * cell_px), int(img_size * 0.28))
logo_max_px(n, logo_scale, cell_px, img_size) ==
    Min((n * logo_scale * cell_px) \div 100, (img_size * LogoCap100) \div 100)

\* ratio = min(max_logo_px / lw, max_logo_px / lh); int(lw * ratio),
\* int(lh * ratio): floating-point rounding can only lower these integers
logo_size(logo, max_logo_px) ==
    [w |-> (logo.lw * max_logo_px) \div Max(logo.lw, logo.lh),
     h |-> (logo.lh * max_logo_px) \div Max(logo.lw, logo.lh)]

\* the eye drawn at each finder origin: outer block, inner hole, centre dot
png_eye(cell, roundness) ==
    [outer_w |-> 7 * cell, outer_r |-> (7 * cell * roundness * 22) \div 10000,
     inner_w |-> 5 * cell, inner_r |-> (5 * cell * roundness * 18) \div 10000,
     dot_w |-> 3 * cell, dot_r |-> (3 * cell * roundness * 35) \div 10000]

svg_eye(cell, roundness) ==
    [outer_w |-> 7 * cell, outer_r |-> (7 * cell * roundness * 22) \div 10000,
     inner_w |-> 5 * cell, inner_r |-> (5 * cell * roundness * 18) \div 10000,
     dot_w |-> 3 * cell, dot_r |-> (3 * cell * roundness * 35) \div 10000]

\* mutant: the finder cells that are set are drawn as data modules too
data_modules_all_dark(matrix, finders) == matrix.dark

\* the cells the module loop draws: set in the matrix and not in finders
data_modules(matrix, finders) == matrix.dark \ finders

\* _render_png: raised is TRUE when Image.open or Image.resize raises
render_png(matrix, logo, module_roundness, logo_scale, cell_px, border_cells) ==
    LET n == matrix.n
        img_size == (n + 2 * border_cells) * cell_px
        gap == (cell_px * GapRatio100) \div 100
        mod_r == ((cell_px - 2 * gap) * module_roundness) \div 200
        finders == finder_zones(n)
        max_logo_px == logo_max_px(n, logo_scale, cell_px, img_size)
        new == logo_size(logo, max_logo_px)
        pad == (cell_px * LogoPad100) \div 100
        with_logo == logo.path /\ logo.exists
        image == [img_size |-> img_size, cell |-> cell_px, gap |-> gap,
                  side |-> cell_px - 2 * gap, radius |-> mod_r,
                  finders |-> finders,
                  modules |-> data_modules(matrix, finders),
                  eyes |-> finder_origins(n),
                  eye |-> png_eye(cell_px, module_roundness),
                  layers |-> <<"background", "modules", "finders">>,
                  logo |-> NoOverlay]
    IN  IF ~with_logo THEN [raised |-> FALSE, image |-> image]
        ELSE IF ~logo.readable \/ new.w < 1 \/ new.h < 1
        THEN [raised |-> TRUE, image |-> image]
        ELSE [raised |-> FALSE,
              image |-> [image EXCEPT !.layers = Append(@, "logo"), !.logo =
                           [present |-> TRUE, w |-> new.w, h |-> new.h,
                            x |-> (img_size - new.w) \div 2,
                            y |-> (img_size - new.h) \div 2, pad |-> pad]]]

\* _render_svg: no logo argument
render_svg(matrix, module_roundness, cell_svg, border_cells) ==
    LET n == matrix.n
        gap == (cell_svg * GapRatio100) \div 100
        mod_w == cell_svg - 2 * gap
        finders == finder_zones(n)
    IN  [img_size |-> (n + 2 * border_cells) * cell_svg, cell |-> cell_svg,
         gap |-> gap, side |-> mod_w,
         radius |-> (mod_w * module_roundness) \div 200,
         finders |-> finders,
         modules |-> data_modules(matrix, finders),
         eyes |-> finder_origins(n),
         eye |-> svg_eye(cell_svg, module_roundness),
         layers |-> <<"background", "modules", "finders">>,
         logo |-> NoOverlay]

NoImage ==
    [img_size |-> 0, cell |-> 0, gap |-> 0, side |-> 0, radius |-> 0,
     finders |-> {}, modules |-> {}, eyes |-> {}, eye |-> png_eye(0, 0),
     layers |-> <<>>, logo |-> NoOverlay]
NoRender == [raised |-> FALSE, png |-> NoImage, svg |-> NoImage]

\* generate_styled_qr: matrix, raster, then vector; an exception of the
\* raster step leaves the function before the vector is built
generate_styled_qr(data, logo, roundness, logo_scale, cell_px, border) ==
    LET matrix == get_qr_matrix(data)
        png == render_png(matrix, logo, roundness, logo_scale, cell_px, border)
    IN  IF png.raised THEN [raised |-> TRUE, png |-> NoImage, svg |-> NoImage]
        ELSE [raised |-> FALSE, png |-> png.image,
              svg |-> render_svg(matrix, roundness, CellSvg, border)]

Roundness == {0, 80, 100}
LogoScales == {22, 28, 50}
CellSizes == {CELL_PX, 50}
BorderCells == {0, BORDER_CELLS}

InitQR ==
    /\ NoPipeline
    /\ call \in [fn : {"generate_styled_qr"}, data : Payloads, logo : Logos,
                  module_roundness : Roundness, logo_scale : LogoScales,
                  cell_px : CellSizes, border_cells : BorderCells,
                  returned : {FALSE}, result : {NoRender}]

generate_styled_qr_call ==
    /\ call.fn = "generate_styled_qr"
    /\ ~call.returned
    /\ call' = [call EXCEPT !.returned = TRUE, !.result =
                   generate_styled_qr(call.data, call.logo,
                                      call.module_roundness, call.logo_scale,
                                      call.cell_px, call.border_cells)]
    /\ UNCHANGED pipeline_vars

NextQR == generate_styled_qr_call

SpecQR == InitQR /\ [][NextQR]_vars

\* ------------------------------------ pdf_service.py: generate_accreditation
\* the files the call touches: the template, the output path, the three
\* NamedTemporaryFile files, and any other file of the disk
Paths == {"template", "output", "tmp_png", "tmp_overlay", "tmp_final", "other"}
TemplateFiles == {Absent, <<"template.pdf">>, <<"corrupt.pdf">>}
OutputFiles == {Absent, <<"old.pdf">>}
Truncated == <<"truncated">>
MergedBadge == <<"badge.pdf">>

\* str(output_path): the template's own path when the caller passes it twice
output_path(c) == IF c.same_path THEN "template" ELSE "output"

\* mutant: the copy does not test whether source and destination are one file
same_file_unchecked(c) == FALSE

\* shutil.copyfile: _samefile(src, dst) raises SameFileError before any write
same_file(c) == c.same_path

InitCompose ==
    /\ NoPipeline
    /\ \E tpl \in TemplateFiles, out \in OutputFiles, same \in BOOLEAN :
          /\ same => out = Absent
          /\ call \in [fn : {"generate_accreditation"}, step : {"fonts"},
                        template : {tpl}, same_path : {same},
                        fonts_registered : BOOLEAN, font_file : BOOLEAN,
                        qr_ok : BOOLEAN, keep_temp : BOOLEAN,
                        fs : {[q \in Paths |->
                                 CASE q = "template" -> tpl
                                   [] q = "output" -> out
                                   [] q = "other" -> <<"other.pdf">>
                                   [] OTHER -> Absent]}]

Running(step) == call.fn = "generate_accreditation" /\ call.step = step

\* _ensure_fonts(fonts_folder)
accreditation_ensure_fonts ==
    /\ Running("fonts")
    /\ call' = IF call.fonts_registered THEN [call EXCEPT !.step = "copy"]
               ELSE IF ~call.font_file THEN [call EXCEPT !.step = "raised"]
               ELSE [call EXCEPT !.step = "copy", !.fonts_registered = TRUE]
    /\ UNCHANGED pipeline_vars

\* shutil.copyfile(template_path, output_path)
accreditation_copyfile ==
    /\ Running("copy")
    /\ call' = IF call.fs["template"] = Absent \/ same_file(call)
               THEN [call EXCEPT !.step = "raised"]
               ELSE [call EXCEPT !.step = "open",
                                 !.fs[output_path(call)] = call.fs["template"]]
    /\ UNCHANGED pipeline_vars

\* the copy fails after the destination was opened for writing
accreditation_copyfile_raises ==
    /\ Running("copy")
    /\ call.fs["template"] # Absent
    /\ ~same_file(call)
    /\ call' = [call EXCEPT !.step = "raised",
                            !.fs[output_path(call)] = Truncated]
    /\ UNCHANGED pipeline_vars

\* with fitz.open(template_path) as tmpl: read the page size
accreditation_open_template ==
    /\ Running("open")
    /\ call' = IF call.fs["template"] = <<"template.pdf">>
               THEN [call EXCEPT !.step = "qr"]
               ELSE [call EXCEPT !.step = "raised"]
    /\ UNCHANGED pipeline_vars

\* generate_qr_code_png, then the PNG is written to a temporary file
accreditation_qr_png ==
    /\ Running("qr")
    /\ call' = IF call.qr_ok
               THEN [call EXCEPT !.step = "overlay", !.fs["tmp_png"] = <<"qr.png">>]
               ELSE [call EXCEPT !.step = "raised"]
    /\ UNCHANGED pipeline_vars

\* the overlay canvas is drawn and saved to a temporary file
accreditation_overlay ==
    /\ Running("overlay")
    /\ call' = [call EXCEPT !.step = "merge",
                            !.fs["tmp_overlay"] = <<"overlay.pdf">>]
    /\ UNCHANGED pipeline_vars

\* fitz.open(output_path), show_pdf_page, doc.save(tmp_final.name)
accreditation_merge ==
    /\ Running("merge")
    /\ call' = [call EXCEPT !.step = "move", !.fs["tmp_final"] = MergedBadge]
    /\ UNCHANGED pipeline_vars

\* the merge raises after tmp_final was created empty
accreditation_merge_raises ==
    /\ Running("merge")
    /\ call' = [call EXCEPT !.step = "raised", !.fs["tmp_final"] = Truncated]
    /\ UNCHANGED pipeline_vars

\* shutil.move(tmp_final.name, output_path)
accreditation_move ==
    /\ Running("move")
    /\ call' = [call EXCEPT !.step = "cleanup",
                            !.fs[output_path(call)] = call.fs["tmp_final"],
                            !.fs["tmp_final"] = Absent]
    /\ UNCHANGED pipeline_vars

\* if not keep_temp: os.unlink(tmp_png.name); os.unlink(tmp_overlay.name)
accreditation_cleanup ==
    /\ Running("cleanup")
    /\ call' = IF call.keep_temp THEN [call EXCEPT !.step = "returned"]
               ELSE [call EXCEPT !.step = "returned", !.fs["tmp_png"] = Absent,
                                 !.fs["tmp_overlay"] = Absent]
    /\ UNCHANGED pipeline_vars

NextCompose ==
    \/ accreditation_ensure_fonts
    \/ accreditation_copyfile
    \/ accreditation_copyfile_raises
    \/ accreditation_open_template
    \/ accreditation_qr_png
    \/ accreditation_overlay
    \/ accreditation_merge
    \/ accreditation_merge_raises
    \/ accreditation_move
    \/ accreditation_cleanup

SpecCompose == InitCompose /\ [][NextCompose]_vars

\* ------------------------------------------------------- barcode-rest-api
\* JSON fields of the request body: a missing key reads as None
Missing == "<missing>"
Barcodes == {Missing, "", "123456789012", "invalid_barcode"}
Names == {Missing, "", "Test Name"}
RequestPaths == {"/api/barcode", "/barcode", "/save"}

\* str.isdigit(): non-empty and digits only
isdigit(barcode) == barcode = "123456789012"
\* truthiness of a JSON field: None and the empty string are falsy
truthy(field) == field \notin {Missing, ""}

\* the rules the Flask app serves: register_routes(app) adds /save; the
\* blueprint bp that holds /barcode is never registered on the app
app_routes == {"/save"}

NoResponse == [status |-> 0, body |-> "", saved |-> {}]

\* save_to_database(barcode, name): upsert keyed by the barcode; a Cosmos
\* error is printed and swallowed
save_to_database(barcode, name, container, cosmos_ok) ==
    IF cosmos_ok THEN container \cup {[id |-> barcode, name |-> name]}
    ELSE container

\* add_barcode: the view of the unregistered blueprint; it calls
\* save_to_database with one argument, which raises TypeError (status 500)
add_barcode(barcode, name, container, cosmos_ok) ==
    IF ~truthy(barcode) \/ ~truthy(name) \/ ~isdigit(barcode)
    THEN [status |-> 400, body |-> "Invalid input", saved |-> container]
    ELSE [status |-> 500, body |-> "Internal Server Error", saved |-> container]

\* save: no validation, always 200
save(barcode, name, container, cosmos_ok) ==
    [status |-> 200, body |-> "Item saved",
     saved |-> save_to_database(barcode, name, container, cosmos_ok)]

\* Flask dispatch of a POST: a path without a rule is answered 404
post(path, barcode, name, container, cosmos_ok) ==
    IF path \notin app_routes
    THEN [status |-> 404, body |-> "Not Found", saved |-> container]
    ELSE IF path = "/save" THEN save(barcode, name, container, cosmos_ok)
    ELSE add_barcode(barcode, name, container, cosmos_ok)

InitBarcode ==
    /\ NoPipeline
    /\ call \in [fn : {"POST"}, path : RequestPaths, barcode : Barcodes,
                  name : Names, cosmos_ok : BOOLEAN, returned : {FALSE},
                  result : {NoResponse}]

post_call ==
    /\ call.fn = "POST"
    /\ ~call.returned
    /\ call' = [call EXCEPT !.returned = TRUE, !.result =
                   post(call.path, call.barcode, call.name, {}, call.cosmos_ok)]
    /\ UNCHANGED pipeline_vars

NextBarcode == post_call

SpecBarcode == InitBarcode /\ [][NextBarcode]_vars

\* ---------------------------------------- excel_service.py: iter_attendees
MaxSheetRows == 2

\* what pandas hands over for a cell: NaN for a blank cell, None, or a text
NaN == "<NaN>"
NoneCell == "<None>"
IdCells == {NaN, NoneCell, "A1"}
NameCells == {NaN, " ", "Ana"}
CompanyCells == {NaN, "Acme"}
SheetRows == [id : IdCells, first_name : NameCells, last_name : NameCells,
              ticket_type : {"Staff"}, company : CompanyCells]
Sheets == UNION {[1..n -> SheetRows] : n \in 1..MaxSheetRows}

\* str(cell)
str(cell) == CASE cell = NaN -> "nan" [] cell = NoneCell -> "None" [] OTHER -> cell

\* text.strip()
strip(text) == IF text = " " THEN "" ELSE text

\* text.lower()
lower(text) == CASE text = "None" -> "none" [] text = "Acme" -> "acme" [] text = "Ana" -> "ana" [] text = "A1" -> "a1" [] text = "Staff" -> "staff" [] OTHER -> text

\* bool(cell): None and the empty text are falsy, NaN is a non-zero float
cell_truthy(cell) == cell \notin {NoneCell, ""}

\* the record of one row, before the filter
attendee_record(row, has_ticket_col) ==
    [id |-> strip(str(row.id)),
     first_name |-> strip(str(row.first_name)),
     last_name |-> strip(str(row.last_name)),
     ticket_type |-> IF has_ticket_col THEN strip(str(row.ticket_type)) ELSE "",
     company |-> IF cell_truthy(row.company) /\ lower(str(row.company)) \notin {"nan", "none", ""}
                 THEN strip(str(row.company)) ELSE ""]

\* the filter of empty rows: True when the row is skipped
row_is_filtered(rec) ==
    \/ rec.id = ""
    \/ lower(rec.id) \in {"nan", "none"}
    \/ rec.first_name = ""
    \/ rec.last_name = ""

RECURSIVE iter_attendees(_, _)
iter_attendees(sheet, has_ticket_col) ==
    IF sheet = <<>> THEN <<>>
    ELSE LET rec == attendee_record(Head(sheet), has_ticket_col)
             rest == iter_attendees(Tail(sheet), has_ticket_col)
         IN  IF row_is_filtered(rec) THEN rest ELSE <<rec>> \o rest

InitExcel ==
    /\ NoPipeline
    /\ call \in [fn : {"iter_attendees"}, sheet : Sheets,
                  has_ticket_col : BOOLEAN, returned : {FALSE},
                  result : {<<>>}]

iter_attendees_call ==
    /\ call.fn = "iter_attendees"
    /\ ~call.returned
    /\ call' = [call EXCEPT !.returned = TRUE,
                            !.result = iter_attendees(call.sheet, call.has_ticket_col)]
    /\ UNCHANGED pipeline_vars

NextExcel == iter_attendees_call

SpecExcel == InitExcel /\ [][NextExcel]_vars

\* ------------------------------------------ pdf_service.py: _ensure_fonts
\* worker threads composing at once, and compositions started in the process
MaxThreads == 2
MaxCompositions == 4

Threads == 1..MaxThreads
FontFiles == {"absent", "corrupt", "ok"}

\* the module as imported (_FONTS_REGISTERED = False) and every thread about
\* to run its first generate_accreditation
InitFonts ==
    /\ NoPipeline
    /\ call \in [fn : {"_ensure_fonts"},
                  FONTS_REGISTERED : {FALSE},
                  font_file : FontFiles,
                  registered : {0},       \* calls of registerFont that returned
                  compositions : {MaxThreads},
                  at : {[t \in Threads |-> "test_flag"]}]

At(t, step) == call.fn = "_ensure_fonts" /\ call.at[t] = step
Goto(t, step) == [call.at EXCEPT ![t] = step]

\* if _FONTS_REGISTERED: return
ensure_fonts_test_flag(t) ==
    /\ At(t, "test_flag")
    /\ call' = [call EXCEPT !.at = Goto(t, IF call.FONTS_REGISTERED
                                           THEN "draw" ELSE "test_path")]
    /\ UNCHANGED pipeline_vars

\* if not os.path.exists(font_path): raise FileNotFoundError
ensure_fonts_test_path(t) ==
    /\ At(t, "test_path")
    /\ call' = [call EXCEPT !.at = Goto(t, IF call.font_file = "absent"
                                           THEN "raised" ELSE "register")]
    /\ UNCHANGED pipeline_vars

\* pdfmetrics.registerFont(TTFont(...)) returns
ensure_fonts_register(t) ==
    /\ At(t, "register")
    /\ call.font_file = "ok"
    /\ call' = [call EXCEPT !.registered = @ + 1, !.at = Goto(t, "set_flag")]
    /\ UNCHANGED pipeline_vars

\* ... or raises: the file has gone or is not a font
ensure_fonts_register_raises(t) ==
    /\ At(t, "register")
    /\ call.font_file # "ok"
    /\ call' = [call EXCEPT !.at = Goto(t, "raised")]
    /\ UNCHANGED pipeline_vars

\* _FONTS_REGISTERED = True
ensure_fonts_set_flag(t) ==
    /\ At(t, "set_flag")
    /\ call' = [call EXCEPT !.FONTS_REGISTERED = TRUE, !.at = Goto(t, "draw")]
    /\ UNCHANGED pipeline_vars

\* generate_accreditation after _ensure_fonts: setFont, drawCentredString
accreditation_draw(t) ==
    /\ At(t, "draw")
    /\ call' = [call EXCEPT !.at = Goto(t, "returned")]
    /\ UNCHANGED pipeline_vars

\* the thread is handed the composition of another record
accreditation_next(t) ==
    /\ At(t, "returned") \/ At(t, "raised")
    /\ call.compositions < MaxCompositions
    /\ call' = [call EXCEPT !.compositions = @ + 1, !.at = Goto(t, "test_flag")]
    /\ UNCHANGED pipeline_vars

\* the fonts folder is changed from outside the process
font_file_changes ==
    /\ call.fn = "_ensure_fonts"
    /\ \E f \in FontFiles \ {call.font_file} :
          call' = [call EXCEPT !.font_file = f]
    /\ UNCHANGED pipeline_vars

NextFonts ==
    \/ \E t \in Threads : ensure_fonts_test_flag(t)
    \/ \E t \in Threads : ensure_fonts_test_path(t)
    \/ \E t \in Threads : ensure_fonts_register(t)
    \/ \E t \in Threads : ensure_fonts_register_raises(t)
    \/ \E t \in Threads : ensure_fonts_set_flag(t)
    \/ \E t \in Threads : accreditation_draw(t)
    \/ \E t \in Threads : accreditation_next(t)
    \/ font_file_changes

SpecFonts == InitFonts /\ [][NextFonts]_vars

\* ------------------------------------------------------------------ claims
HasJob == job_id \in DOMAIN jobs
Job == jobs[job_id]
Terminal == {"completed", "failed"}
Settled == {i \in Tasks : task[i] = "done"}
Counted(j) == j.generated + j.skipped + j.failed

\* C1: once a job's status is completed or failed no later job-service
\* operation changes it, and running is never entered from a terminal status,
\* also when an external caller has marked the job failed to cancel it.
C1_TerminalIsFinal ==
    [][\A jid \in DOMAIN jobs :
          /\ jobs[jid].status \in Terminal => jobs'[jid].status = jobs[jid].status
          /\ jobs'[jid].status = "running"
                => jobs[jid].status \in {"pending", "running"}]_vars

\* C2: the ZIP is built and the job becomes completed only when every record
\* task has settled; a completed job has generated + skipped + failed equal to
\* total_attendees and its download_url set.
C2_CompletedAfterJoin ==
    HasJob =>
        /\ (Job.status = "completed" \/ archive # <<>>)
              => /\ Tasks = Records
                 /\ \A i \in Tasks : task[i] = "done"
                 /\ InFlight = {}
        /\ Job.status = "completed"
              => /\ Counted(Job) = Job.total_attendees
                 /\ Job.download_url # NoUrl
                 /\ archive # <<>>

C2_Witness ==
    /\ HasJob
    /\ Job.status = "completed"
    /\ Job.total_attendees = MaxRecords
    /\ Job.generated >= 1
    /\ Job.failed >= 1

\* the counters add up to the number of settled records
C3_Sums ==
    HasJob =>
        /\ Counted(Job) = Cardinality(Settled)
        /\ generated + skipped + failed = Cardinality(Settled)

\* a step settles a record at most once and counts it exactly once
C3_Step ==
    HasJob =>
        /\ \A i \in Tasks :
              /\ task[i] # "waiting" => task'[i] # "waiting"
              /\ task[i] = "done" => task'[i] = "done" /\ outcome'[i] = outcome[i]
              /\ (task[i] # "done" /\ task'[i] = "done")
                    => <<jobs'[job_id].generated - Job.generated,
                         jobs'[job_id].skipped - Job.skipped,
                         jobs'[job_id].failed - Job.failed>>
                          \in {<<1, 0, 0>>, <<0, 1, 0>>, <<0, 0, 1>>}
        /\ (\A i \in Tasks : task[i] = "done" <=> task'[i] = "done")
              => /\ jobs'[job_id].generated = Job.generated
                 /\ jobs'[job_id].skipped = Job.skipped
                 /\ jobs'[job_id].failed = Job.failed

\* C3: within one run a record is started once and settles once, its outcome
\* adds exactly 1 to exactly one of generated, skipped, failed of the job
\* record, and at every moment generated + skipped + failed (of the job record
\* and of the run's own counters) is the number of settled records.
C3_CountersSerialized == []C3_Sums /\ [][C3_Step]_vars

C3_Witness ==
    /\ Settled # {}
    /\ \E i, j \in Tasks :
          /\ i # j
          /\ task[i] = "thread_ok"
          /\ task[j] \in {"thread_ok", "thread_err"}

\* C4: at every moment at most max_concurrent_pdf_jobs record compositions
\* are in flight.
C4_AtMostCapInFlight ==
    /\ Cardinality(InFlight) <= MaxConcurrentPdfJobs
    /\ sem >= 0

C4_Witness ==
    /\ Cardinality(InFlight) = MaxConcurrentPdfJobs
    /\ \E i \in Tasks : task[i] = "waiting"

FailedRecords == {i \in Tasks : outcome[i] \in {"raised", "no_position"}}
RaisedRecords == {i \in Tasks : outcome[i] = "raised"}

\* C5: a record whose composition raised is counted failed exactly once, the
\* other records are still attempted and counted, and the raise does not make
\* the job failed: a run that ends without a pipeline-level exception is
\* completed with every record counted.
C5_RecordFailureIsCounted ==
    HasJob =>
        /\ Job.failed = Cardinality(FailedRecords)
        /\ failed = Cardinality(FailedRecords)
        /\ \A i \in Tasks : task[i] = "thread_err" => Job.status # "failed"
        /\ (RaisedRecords # {} /\ exc = NoError) => Job.status # "failed"
        /\ (RaisedRecords # {} /\ exc = NoError /\ pc = "done")
              => /\ Job.status = "completed"
                 /\ \A i \in Records : outcome[i] # "none"
                 /\ Counted(Job) = Job.total_attendees

C5_Witness ==
    /\ HasJob
    /\ pc = "done"
    /\ Job.status = "completed"
    /\ Cardinality(RaisedRecords) = 1
    /\ Job.failed = 1
    /\ Job.total_attendees = MaxRecords
    /\ Job.generated = MaxRecords - 1

\* C6: the job is failed exactly when the except clause of the run caught a
\* pipeline-level exception (no template at all, template download, ZIP or
\* upload raising); its error is then that exception's message and the job is
\* never completed; failures of records alone never make it failed.
C6_FailedIffPipelineException ==
    HasJob =>
        /\ Job.status = "failed" <=> exc # NoError
        /\ exc # NoError
              => /\ Job.error = exc
                 /\ pc = "done"
                 /\ Job.download_url = NoUrl
                 /\ archive = <<>>
        /\ (blobs = {} /\ pc = "done") => exc = NoTemplatesMsg
        /\ (pc = "done" /\ exc = NoError) => Job.status = "completed"

C6_Witness ==
    /\ HasJob
    /\ Job.status = "failed"
    /\ exc \in ArchiveErrors
    /\ Job.generated >= 1
    /\ Job.failed >= 1

\* C7: a background run that has ended, by returning or by raising, has left
\* its job completed or failed; no exception escapes the run.
C7_RunEndsTerminal ==
    pc \in {"done", "escaped"} => pc = "done" /\ Job.status \in Terminal

\* the first step of a record's task
C8_Step ==
    \A i \in Tasks :
        (task[i] = "waiting" /\ task'[i] # "waiting")
            => IF req.incremental /\ work_dir[attendees[i].id] # Absent
               THEN /\ outcome'[i] = "skipped"
                    /\ task'[i] = "done"
                    /\ passed'[i] = NoPlacement
                    /\ work_dir' = work_dir
                    /\ skipped' = skipped + 1
                    /\ jobs'[job_id].skipped = Job.skipped + 1
               ELSE /\ outcome'[i] # "skipped"
                    /\ skipped' = skipped

C8_SkippedNotComposed ==
    /\ \A i \in Tasks : outcome[i] = "skipped" => passed[i] = NoPlacement
    /\ ~req.incremental => skipped = 0

\* C8: a record whose turn comes when incremental mode is on and its output
\* file exists is counted skipped, the compositor is not invoked for it and
\* the working directory is left as it is; otherwise it is never skipped.
C8_IncrementalSkip == []C8_SkippedNotComposed /\ [][C8_Step]_vars

C8_Witness ==
    \E i \in Tasks : outcome[i] = "skipped" /\ work_dir[attendees[i].id] # Absent

\* C9: when a request whose run generated every record is issued again in
\* incremental mode with unchanged inputs, the second run generates nothing
\* and counts every record skipped.
C9_RerunSkipsAll ==
    (/\ Len(jobs) >= 2
     /\ req.incremental
     /\ jobs[1].status = "completed"
     /\ jobs[1].generated = Len(attendees)
     /\ jobs[2].status = "completed")
        => /\ jobs[2].generated = 0
           /\ jobs[2].skipped = jobs[1].generated

\* the compositor was invoked for record i
Composed(i) == task[i] \in ThreadStates \/ outcome[i] \in {"generated", "raised"}

\* C10: the placement handed to the compositor is the placement of the
\* record's resolved role when the request has one, and the general-attendee
\* placement only when it has none for that role.
C10_PlacementOfRole ==
    \A i \in Tasks :
        IF Composed(i)
        THEN /\ passed[i] \in req.positions
             /\ passed[i] = IF role_of(attendees[i]) \in req.positions
                            THEN role_of(attendees[i])
                            ELSE "attendee"
        ELSE passed[i] = NoPlacement

C10_Witness ==
    \E i, j \in Tasks :
        /\ outcome[i] = "generated"
        /\ role_of(attendees[i]) = "staff"
        /\ passed[i] = "attendee"
        /\ outcome[j] = "generated"
        /\ role_of(attendees[j]) = "speaker"
        /\ passed[j] = "speaker"

\* the records for which the request has no placement at all
Unplaced ==
    {i \in Tasks : /\ role_of(attendees[i]) \notin req.positions
                   /\ "attendee" \notin req.positions}

\* C11: a record with neither a placement for its role nor a general-attendee
\* placement, once past the skip check, is counted failed without the
\* compositor being invoked and without an exception, and the batch goes on:
\* a run of N records with exactly one such record, nothing skipped and no
\* composition raising, ends completed with generated = N - 1, skipped = 0,
\* failed = 1.
C11_NoPlacementIsFailed ==
    /\ \A i \in Unplaced :
          /\ ~Composed(i)
          /\ passed[i] = NoPlacement
          /\ outcome[i] \in {"none", "skipped", "no_position"}
          /\ (task[i] = "done" /\ outcome[i] # "skipped")
                => outcome[i] = "no_position"
    /\ \A i \in Tasks : outcome[i] = "no_position" => i \in Unplaced
    /\ HasJob => Job.failed >= Cardinality({i \in Unplaced : task[i] = "done"
                                                /\ outcome[i] # "skipped"})
    /\ (pc = "done" /\ exc = NoError /\ Cardinality(Unplaced) = 1
          /\ RaisedRecords = {} /\ \A i \in Tasks : outcome[i] # "skipped")
        => /\ Job.status = "completed"
           /\ Job.generated = Len(attendees) - 1
           /\ Job.skipped = 0
           /\ Job.failed = 1

C11_Witness ==
    /\ HasJob
    /\ pc = "done"
    /\ Job.status = "completed"
    /\ Len(attendees) = MaxRecords
    /\ Cardinality(Unplaced) = 1
    /\ \A i \in Unplaced : outcome[i] = "no_position"
    /\ Job.generated = MaxRecords - 1
    /\ Job.skipped = 0
    /\ Job.failed = 1

\* C12: resolve_template_role returns staff when the ticket type is one of
\* the staff labels, otherwise speaker when it is one of the speaker labels,
\* and attendee for every other ticket type, the empty string included; the
\* result is always one of the three roles.
C12_RoleOfTicketType ==
    (call.fn = "resolve_template_role" /\ call.result # Pending) =>
        /\ call.result \in Roles
        /\ call.ticket_type \in call.types_staff => call.result = "staff"
        /\ (call.ticket_type \in call.types_speaker
              /\ call.ticket_type \notin call.types_staff)
             => call.result = "speaker"
        /\ call.ticket_type \notin (call.types_staff \cup call.types_speaker)
             => call.result = "attendee"
        /\ call.ticket_type = "" => call.result = "attendee"

C12_Witness ==
    /\ call.fn = "resolve_template_role"
    /\ call.ticket_type = "Crew"
    /\ call.types_staff = {"Helpers", "Crew"}
    /\ call.types_speaker = {"Speakers", "Crew"}
    /\ call.result = "staff"

\* the sizes between the floor and the initial size at which the text fits
FittingSizes ==
    {z \in call.minimum..call.initial :
        stringWidth(call.text, z) <= call.max_width}

\* C13: _adjust_font_size returns the largest size between the floor and the
\* initial size at which the text is no wider than max_width, and the floor
\* when there is no such size; the result is never below the floor, and the
\* text at the result is wider than max_width only when the result is the
\* floor.
C13_LargestFittingSize ==
    (call.fn = "_adjust_font_size" /\ call.returned) =>
        /\ call.result >= call.minimum
        /\ FittingSizes # {}
             => /\ call.result \in FittingSizes
                /\ \A z \in FittingSizes : z <= call.result
        /\ FittingSizes = {} => call.result = call.minimum
        /\ stringWidth(call.text, call.result) > call.max_width
             => call.result = call.minimum

\* a size strictly between the floor and the initial size was returned
C13_Witness ==
    /\ call.fn = "_adjust_font_size"
    /\ call.returned
    /\ call.result > call.minimum
    /\ call.result < call.initial
    /\ stringWidth(call.text, call.result + 1) > call.max_width

TextDrawn == call.fn = "generate_accreditation.text" /\ call.returned
TextOps == {call.result.ops[k] : k \in DOMAIN call.result.ops}
BoundingWidth == call.tmpl_w - 2 * call.qr_x - 4

\* C14 as stated: every text line drawn on the badge is no wider than the
\* bounding width templateWidth - 2*qr_x - 4, whatever the length of the name
\* or company.
C14_NoLineOverflows ==
    TextDrawn =>
        \A op \in TextOps : stringWidth(op.ems, op.size) <= BoundingWidth

\* C14 amended: every text line drawn on the badge is no wider than the
\* bounding width templateWidth - 2*qr_x - 4 unless it is drawn at the 8pt
\* floor; a line drawn above the floor never overflows.
C14_NoLineOverflowsAboveFloor ==
    TextDrawn =>
        \A op \in TextOps :
            /\ op.size >= DefaultMinimum
            /\ \/ stringWidth(op.ems, op.size) <= BoundingWidth
               \/ op.size = DefaultMinimum

\* one line was shrunk and fits, another overflows at the floor
C14_Witness ==
    /\ TextDrawn
    /\ \E op \in TextOps :
          /\ op.size > DefaultMinimum
          /\ op.size < NameInitial
          /\ op.ems > 0
          /\ stringWidth(op.ems, op.size) <= BoundingWidth
    /\ \E op \in TextOps :
          /\ op.size = DefaultMinimum
          /\ stringWidth(op.ems, op.size) > BoundingWidth

QRReturned == call.fn = "generate_styled_qr" /\ call.returned
QRDone == QRReturned /\ ~call.result.raised
QRMatrix == get_qr_matrix(call.data)
\* the three 7x7 corner blocks, each with one more cell on every side, clipped
CornerBlocks(n) == {rc \in Grid(n) : in_corner(n, rc[1], rc[2])}

\* C15: for a matrix of N >= 21 cells a side the finder zones are exactly
\* the three 7x7 corner blocks at (0,0), (0,N-7), (N-7,0), each expanded by
\* one cell on every side and clipped to the grid; the three zones are
\* pairwise disjoint; no cell outside them is classified as finder zone, and
\* no cell inside them is drawn as a data module by either renderer.
C15_FinderZones ==
    QRDone =>
        LET n == QRMatrix.n
            png == call.result.png
            svg == call.result.svg
        IN  /\ n >= 21
            /\ png.finders = CornerBlocks(n)
            /\ svg.finders = CornerBlocks(n)
            /\ Cardinality(png.finders) = 3 * (FinderSide + 1) * (FinderSide + 1)
            /\ \A a, b \in finder_origins(n) :
                  a # b => finder_zone_of(n, a) \cap finder_zone_of(n, b) = {}
            /\ png.modules \cap CornerBlocks(n) = {}
            /\ svg.modules \cap CornerBlocks(n) = {}
            /\ png.modules = QRMatrix.dark \ CornerBlocks(n)
            /\ svg.modules = QRMatrix.dark \ CornerBlocks(n)

\* a rendered matrix whose finder cells are set and not drawn as modules
C15_Witness ==
    /\ QRDone
    /\ QRMatrix.n = 17 + 4 * MaxVersion
    /\ <<0, QRMatrix.n - 1>> \in QRMatrix.dark
    /\ <<0, QRMatrix.n - 1>> \in call.result.png.finders
    /\ <<0, QRMatrix.n - 1>> \notin call.result.png.modules
    /\ <<0, QRMatrix.n - 9>> \in call.result.png.modules

\* C16: whatever the matrix size, cell size, quiet zone, logo dimensions and
\* logo_scale (values above 0.28 included), the scaled logo's width and
\* height are each at most min(N * logo_scale * cell_px, 0.28 * img_size), so
\* the logo overlay, its padded background included, covers at most 28% of
\* the image area.
C16_LogoWithinCap ==
    (QRDone /\ call.result.png.logo.present) =>
        LET png == call.result.png
            logo == png.logo
            scaled == QRMatrix.n * call.logo_scale * call.cell_px
            cap == LogoCap100 * png.img_size
        IN  /\ png.img_size = (QRMatrix.n + 2 * call.border_cells) * call.cell_px
            /\ 100 * logo.w <= scaled /\ 100 * logo.w <= cap
            /\ 100 * logo.h <= scaled /\ 100 * logo.h <= cap
            /\ 100 * logo.w * logo.h <= LogoCap100 * png.img_size * png.img_size
            /\ 100 * (logo.w + 2 * logo.pad) * (logo.h + 2 * logo.pad)
                  <= LogoCap100 * png.img_size * png.img_size

\* a logo_scale above 0.28 was requested and the hard cap decided the size
C16_Witness ==
    /\ QRDone
    /\ call.result.png.logo.present
    /\ call.logo_scale > LogoCap100
    /\ call.result.png.logo.w = (LogoCap100 * call.result.png.img_size) \div 100
    /\ 100 * (call.result.png.logo.w + 1)
          <= QRMatrix.n * call.logo_scale * call.cell_px

\* C17: when a logo path is supplied and the logo cannot be read (the file is
\* missing or unreadable) the render fails with an error; it never returns a
\* QR image from which the requested logo has been left out.
C17_UnreadableLogoFails ==
    (QRReturned /\ call.logo.path) =>
        /\ ~(call.logo.exists /\ call.logo.readable) => call.result.raised
        /\ ~call.result.raised => call.result.png.logo.present

\* raster length a (pixels) and vector length b (thousandths) are the same
\* fraction of their cells, to within one pixel of the raster
SameRelative(a, png, b, svg) ==
    /\ (a - 1) * svg.cell < b * png.cell
    /\ b * png.cell < (a + 1) * svg.cell

\* modules, finder patterns and rounding of the two outputs agree
SameGeometry(png, svg) ==
    /\ png.modules = svg.modules
    /\ png.eyes = svg.eyes
    /\ png.img_size * svg.cell = svg.img_size * png.cell
    /\ SameRelative(png.side, png, svg.side, svg)
    /\ SameRelative(png.radius, png, svg.radius, svg)
    /\ \A f \in {"outer_r", "inner_r", "dot_r"} :
          SameRelative(png.eye[f], png, svg.eye[f], svg)
    /\ \A f \in {"outer_w", "inner_w", "dot_w"} :
          png.eye[f] * svg.cell = svg.eye[f] * png.cell

\* C18: for every matrix and style, styles with a logo included, the raster
\* and the vector output of generate_styled_qr describe the same design: the
\* same data cells drawn as modules, the same three finder patterns at the
\* same cells, the same module size and corner radius relative to the cell
\* (up to whole pixels), and the same logo overlay.
C18_RasterMatchesVector ==
    QRDone =>
        /\ SameGeometry(call.result.png, call.result.svg)
        /\ call.result.svg.logo.present = call.result.png.logo.present
        /\ call.result.png.logo.present =>
              /\ SameRelative(call.result.png.logo.w, call.result.png,
                              call.result.svg.logo.w, call.result.svg)
              /\ SameRelative(call.result.png.logo.h, call.result.png,
                              call.result.svg.logo.h, call.result.svg)

Composing == call.fn = "generate_accreditation"
\* the paths the call may write: the output path and the temporary files
Writable == {output_path(call), "tmp_png", "tmp_overlay", "tmp_final"}

C20_Step ==
    Composing =>
        \A q \in Paths : call'.fs[q] # call.fs[q] => q \in Writable \ {"template"}

\* C20: generate_accreditation never modifies the template file: at every
\* step and on every exit, return or exception, the template holds what it
\* held before the call, and every write goes to the output path or to a
\* temporary file.
C20_TemplateUntouched ==
    /\ [](Composing => /\ call.fs["template"] = call.template
                        /\ call.fs["other"] = <<"other.pdf">>)
    /\ [][C20_Step]_vars

\* the call returned with the badge at the output path
C20_Witness ==
    /\ Composing
    /\ call.step = "returned"
    /\ call.fs["output"] = MergedBadge
    /\ call.fs["template"] = <<"template.pdf">>

CompanyOps == {op \in TextOps : op.line = "company"}
NoCompany == [text |-> "", lower |-> "", ems |-> 0]

C22_EmptyNameOmitted ==
    TextDrawn =>
        /\ call.last = 0 => \A op \in TextOps : op.line # "last"
        /\ call.first = 0 => \A op \in TextOps : op.line # "first"
        /\ (call.last = 0 /\ call.first # 0)
             => \A op \in TextOps :
                  op.line = "first"
                     => op.y = call.qr_y + call.qr_size + LastNameGap

\* C23: POST /api/barcode is answered 201, with the item saved, when the
\* barcode is all digits and a name is present, and 400, with nothing saved,
\* when the barcode is not all digits (error Invalid barcode) or the name is
\* missing (error Name is required).
C23_BarcodeApi ==
    (call.fn = "POST" /\ call.returned /\ call.path = "/api/barcode") =>
        /\ (isdigit(call.barcode) /\ truthy(call.name) /\ call.cosmos_ok)
             => /\ call.result.status = 201
                /\ call.result.saved
                     = {[id |-> call.barcode, name |-> call.name]}
        /\ (truthy(call.barcode) /\ ~isdigit(call.barcode))
             => /\ call.result.status = 400
                /\ call.result.body = "Invalid barcode"
                /\ call.result.saved = {}
        /\ (isdigit(call.barcode) /\ ~truthy(call.name))
             => /\ call.result.status = 400
                /\ call.result.body = "Name is required"
                /\ call.result.saved = {}

\* layer a is painted before layer b
PaintedBefore(image, a, b) ==
    \E i, j \in DOMAIN image.layers :
        i < j /\ image.layers[i] = a /\ image.layers[j] = b

\* the module shape of an image: side cell - 2*gap, radius roundness * side / 2
\* (cut to whole pixels in the raster), at most half the side
ModuleShape(image, roundness) ==
    /\ image.side = image.cell - 2 * image.gap
    /\ 200 * image.radius <= roundness * image.side
    /\ roundness * image.side < 200 * (image.radius + 1)
    /\ 2 * image.radius <= image.side

\* C24: in both renderers a data module is drawn for a cell exactly when the
\* cell is set in the matrix and lies outside the finder zones, so a clear
\* cell gets no shape; each module is a rounded square of side cell - 2*gap
\* whose corner radius is roundness * (cell - 2*gap) / 2, never more than
\* half the side; the finder patterns are painted after the data modules.
C24_DataModules ==
    QRDone =>
        LET matrix == QRMatrix
            zones == finder_zones(matrix.n)
            drawn == {rc \in Grid(matrix.n) : rc \in matrix.dark /\ rc \notin zones}
        IN
        \A image \in {call.result.png, call.result.svg} :
            /\ image.modules = drawn
            /\ ModuleShape(image, call.module_roundness)
            /\ PaintedBefore(image, "modules", "finders")
            /\ ~PaintedBefore(image, "finders", "modules")

\* a render with rounded modules, set finder cells and clear payload cells
C24_Witness ==
    /\ QRDone
    /\ call.module_roundness = 80
    /\ call.result.png.radius > 0
    /\ call.result.svg.radius > 0
    /\ LET matrix == QRMatrix
       IN  /\ \E rc \in Grid(matrix.n) :
                 rc \notin matrix.dark /\ rc \notin call.result.png.finders
           /\ \E rc \in call.result.png.finders : rc \in matrix.dark
    /\ call.result.png.modules # {}

Ops == call.result.ops

\* C25: the lines are drawn in the order last name, first name, company,
\* the last name 10 points above the QR's top edge; each next baseline is
\* the previous one plus the fitted size of the line below plus a fixed gap
\* (6, then 4), so for every combination of fitted sizes the baselines are
\* strictly increasing and the box of a line (descent to ascent) never
\* reaches into the box of the line below.
C25_LinesStacked ==
    TextDrawn =>
        /\ Ops[1].line = "last" /\ Ops[2].line = "first"
        /\ Len(Ops) = 3 => Ops[3].line = "company"
        /\ Ops[1].y = call.qr_y + call.qr_size + LastNameGap
        /\ Ops[2].y = Ops[1].y + Ops[1].size + FirstNameGap
        /\ Len(Ops) = 3 => Ops[3].y = Ops[2].y + Ops[2].size + CompanyGap
        /\ \A k \in DOMAIN Ops :
              /\ Ops[k].size \in DefaultMinimum..NameInitial
              /\ k > 1 =>
                   /\ Ops[k].y > Ops[k - 1].y
                   /\ 1000 * Ops[k].y - Descent1000 * Ops[k].size
                        >= 1000 * Ops[k - 1].y + Ascent1000 * Ops[k - 1].size

\* three lines, the lowest at the floor and a larger one right above it
C25_Witness ==
    /\ TextDrawn
    /\ Len(Ops) = 3
    /\ Ops[1].size = DefaultMinimum
    /\ Ops[2].size = NameInitial
    /\ Ops[3].size = CompanyInitial

\* a cell that is empty or missing: blank (NaN), None, or nothing but spaces
BlankCell(cell) == cell \in {NaN, NoneCell} \/ strip(cell) = ""

RowsWithNames ==
    {k \in DOMAIN call.sheet :
        /\ ~BlankCell(call.sheet[k].id)
        /\ ~BlankCell(call.sheet[k].first_name)
        /\ ~BlankCell(call.sheet[k].last_name)}

\* C26: iter_attendees leaves out every row whose id, first name or last
\* name cell is empty or missing (a blank cell read as NaN or None
\* included): the records it returns are those of the rows with all three,
\* and each has a non-empty id, first name and last name.
C26_BlankRowsExcluded ==
    (call.fn = "iter_attendees" /\ call.returned) =>
        /\ Len(call.result) = Cardinality(RowsWithNames)
        /\ \A k \in DOMAIN call.result :
              /\ call.result[k].id # ""
              /\ call.result[k].first_name # ""
              /\ call.result[k].last_name # ""

Archived == archive[1]
DistinctIds == \A i, j \in Tasks : attendees[i].id = attendees[j].id => i = j

\* C27: when a job completes, the archived PDFs are exactly the outputs of
\* the records counted as generated (with the outputs, already there, of the
\* skipped ones): every archived file is the finished badge of a generated
\* record, none is the file of a failed record or a partly composed one,
\* and with distinct ids there are generated + skipped of them.
C27_ArchiveIsGenerated ==
    (pc = "done" /\ archive # <<>>) =>
        /\ \A f \in Archived :
              \E i \in Tasks : /\ attendees[i].id = f[1]
                               /\ outcome[i] = "generated"
                               /\ f[2] = Badge(i)
        /\ \A i \in Tasks :
              outcome[i] = "generated" => \E f \in Archived : f[1] = attendees[i].id
        /\ DistinctIds => Cardinality(Archived) = generated + skipped

\* the outcome of record i when the records are processed one at a time in
\* list order: its output exists once an earlier record of the same id that
\* has a placement has been composed
Placed(i) == pos_lookup(req.positions, role_of(attendees[i])) # NoPlacement
InOrderOutcome(i) ==
    IF req.incremental /\ \E j \in Tasks : /\ j < i
                                           /\ attendees[j].id = attendees[i].id
                                           /\ Placed(j)
    THEN "skipped"
    ELSE IF Placed(i) THEN "generated" ELSE "no_position"
InOrder(o) == {i \in Tasks : InOrderOutcome(i) = o}
InOrderFiles ==
    {<<attendees[i].id, Badge(i)>> : i \in
        {k \in InOrder("generated") :
            \A j \in InOrder("generated") :
                attendees[j].id = attendees[k].id => j <= k}}

\* C28: the final counts and the final content of every output file do not
\* depend on the interleaving of the record tasks: when no composition
\* raises they are those of the run that takes the records one at a time,
\* also for two records of one id in incremental mode.
C28_InterleavingIndependent ==
    (pc = "done" /\ archive # <<>> /\ RaisedRecords = {}) =>
        /\ generated = Cardinality(InOrder("generated"))
        /\ skipped = Cardinality(InOrder("skipped"))
        /\ failed = Cardinality(InOrder("no_position"))
        /\ Archived = InOrderFiles

\* a composition draws its text only once a registration has completed
DrawsAfterRegistration ==
    \A t \in Threads : At(t, "draw") => call.registered >= 1

\* the flag is set only by a registration that completed
FlagMeansRegistered == call.FONTS_REGISTERED => call.registered >= 1

\* a call that raises leaves the flag as it was
RaisingKeepsFlag ==
    [][\A t \in Threads :
          (call.fn = "_ensure_fonts" /\ call.at[t] # "raised" /\ call'.at[t] = "raised")
              => call'.FONTS_REGISTERED = call.FONTS_REGISTERED]_vars

\* C29: the badge font is registered at most once per process: whatever the
\* interleaving of the compositions of the worker threads, _ensure_fonts
\* registers the font once, a composition draws its text only after a
\* registration has completed, and a call that fails leaves the flag unset.
C29_RegisteredOnce ==
    call.fn = "_ensure_fonts" =>
        /\ call.registered <= 1
        /\ DrawsAfterRegistration
        /\ FlagMeansRegistered

GeneratedAs(r) ==
    {i \in Tasks : outcome[i] = "generated" /\ role_of(attendees[i]) = r}

C30_StatsAddUp ==
    (pc = "done" /\ HasJob /\ Job.status = "completed") =>
        /\ stats["staff"] + stats["speaker"] + stats["attendee"] = generated
        /\ \A r \in Roles : stats[r] = Cardinality(GeneratedAs(r))
        /\ Job.stats = stats
        /\ Job.generated = generated
        /\ Job.skipped = skipped
        /\ Job.failed = failed

C30_Step ==
    (pc = "gather" /\ pc' = "done" /\ jobs'[job_id].status = "completed")
        => /\ jobs'[job_id].generated = Job.generated
           /\ jobs'[job_id].skipped = Job.skipped
           /\ jobs'[job_id].failed = Job.failed

\* C30: at job completion the per-role counters add up to generated, each
\* equals the number of composed records that resolved to its role, and the
\* generated, skipped and failed values mark_completed writes are the ones
\* the job record already holds from increment_progress.
C30_StatsConsistent == []C30_StatsAddUp /\ [][C30_Step]_vars

\* a completed job with badges generated for two roles
C30_Witness ==
    /\ pc = "done" /\ HasJob /\ Job.status = "completed"
    /\ Job.stats["staff"] >= 1
    /\ Job.stats["speaker"] + Job.stats["attendee"] >= 1
    /\ Job.skipped + Job.failed >= 1

====
